---- MODULE Spec2Model ----
(***************************************************************************)
(* The conversational context window manager of the chat API routes:      *)
(*   src/src/app/api/chat_06_history_summary/route.ts  (POST, lines 135-376)*)
(*   src/src/app/api/chat_06_history_optimize/route.ts (POST, lines 141-278)*)
(*   src/src/app/api/chat_06_history_summary/route.ts  (second POST, 562-728)*)
(*   src/src/app/api/chat_07_history_with_tool_calling/route.ts (POST)      *)
(* together with the token encoder cache and the connection pools.         *)
(* A request is a process; each awaited call of a handler is one step.     *)
(* Strings are run-length encoded sequences of <<character, count>> so     *)
(* that slice, concatenation, length and equality are computed as          *)
(* JavaScript computes them, also for texts of more than 1500 characters.  *)
(***************************************************************************)
EXTENDS Integers, Sequences, FiniteSets, TLC

(* ------------------------------ bounds -------------------------------- *)
MaxReq == 2
MaxChunks == 2
MaxFaults == 1
MaxHist == 3
MaxCalls == 3
ShortLen == 3
LongLen == 800
HugeLen == 1600

(* ------------------------- program constants -------------------------- *)
TitleLen == 50
maxTokens == 1500
ListLimit == 50

Reqs == 1..MaxReq

(* ------------------------------ strings ------------------------------- *)
Rep(c, n) == IF n <= 0 THEN <<>> ELSE << <<c, n>> >>

RECURSIVE StrLen(_)
StrLen(t) == IF t = <<>> THEN 0 ELSE Head(t)[2] + StrLen(Tail(t))

Concat(a, b) ==
  IF a = <<>> THEN b
  ELSE IF b = <<>> THEN a
  ELSE IF a[Len(a)][1] = b[1][1]
       THEN SubSeq(a, 1, Len(a) - 1)
              \o << <<b[1][1], a[Len(a)][2] + b[1][2]>> >> \o Tail(b)
       ELSE a \o b

RECURSIVE Str(_)
Str(cs) == IF cs = <<>> THEN <<>> ELSE Concat(Rep(Head(cs), 1), Str(Tail(cs)))

\* t.slice(0, k)
RECURSIVE Slice(_, _)
Slice(t, k) ==
  IF t = <<>> \/ k <= 0 THEN <<>>
  ELSE IF Head(t)[2] >= k THEN << <<Head(t)[1], k>> >>
  ELSE <<Head(t)>> \o Slice(Tail(t), k - Head(t)[2])

Ellipsis == Rep(".", 3)
NewChat == Str(<<"N", "e", "w", " ", "C", "h", "a", "t">>)

Short == Rep("a", ShortLen)
Other == Rep("c", ShortLen)
Long == Rep("a", LongLen)
Huge == Rep("b", HugeLen)
AtLimit == Rep("d", TitleLen)
OverLimit == Rep("d", TitleLen + 1)

(* ------------------------------ titles -------------------------------- *)
\* chat_06_history_summary POST: 'New Chat' unless the first user message
\* has a text part; then slice(0, 50) + (length > 50 ? '...' : '')
SummaryTitle(hasText, text) ==
  IF hasText
  THEN Concat(Slice(text, TitleLen),
              IF StrLen(text) > TitleLen THEN Ellipsis ELSE <<>>)
  ELSE NewChat

\* chat_06_history_optimize createSessionAndUpdateMessages: 'New Chat'
\* unless the first part is a text part; then slice(0, 50)
OptimizeTitle(hasText, text) == IF hasText THEN Slice(text, TitleLen) ELSE NewChat

(* --------------------------- token counting --------------------------- *)
\* enc.encode(text).length: the encoder is abstracted to one token per
\* character, which keeps the count deterministic, additive and >= 0.
strTokenCounter(content) == StrLen(content)

RoleLabel(type) ==
  CASE type = "human" -> Str(<<"u", "s", "e", "r">>)
    [] type = "ai" -> Str(<<"a", "s", "s", "i", "s", "t", "a", "n", "t">>)
    [] type = "system" -> Str(<<"s", "y", "s", "t", "e", "m">>)
    [] OTHER -> Str(<<"u", "n", "k", "n", "o", "w", "n">>)

RECURSIVE tiktokenCounter(_)
tiktokenCounter(msgs) ==
  IF msgs = <<>> THEN 0
  ELSE strTokenCounter(RoleLabel(Head(msgs).type))
         + strTokenCounter(Head(msgs).content)
         + tiktokenCounter(Tail(msgs))

\* The message contents a token count is asked for: a string, an array of
\* parts (text parts and others, the latter given by their JSON text), null
\* or undefined, and any other value given by its String() text.
TextPart(t) == [type |-> "text", text |-> t]
OtherPart(json) == [type |-> "image_url", text |-> json]

Contents ==
  { [kind |-> "string", text |-> Short, parts |-> <<>>],
    [kind |-> "string", text |-> <<>>, parts |-> <<>>],
    [kind |-> "array", text |-> <<>>, parts |-> <<TextPart(Short), OtherPart(Other)>>],
    [kind |-> "nullish", text |-> <<>>, parts |-> <<>>],
    [kind |-> "other", text |-> Str(<<"4", "2">>), parts |-> <<>>] }

\* The calls made: strTokenCounter on every content, tiktokenCounter on a
\* user message with array content.
CountInputs ==
  {<<"strTokenCounter", content>> : content \in Contents}
    \cup {<<"tiktokenCounter", content>> : content \in {x \in Contents : x.kind = "array"}}

\* parts.join(' ')
RECURSIVE JoinParts(_)
JoinParts(parts) ==
  IF parts = <<>> THEN <<>>
  ELSE IF Len(parts) = 1 THEN Head(parts).text
  ELSE Concat(Concat(Head(parts).text, Rep(" ", 1)), JoinParts(Tail(parts)))

\* The string handed to enc.encode (lines 83-89): the content itself, the
\* joined parts, or String(content ?? '').
ContentText(content) ==
  IF content.kind = "string" THEN content.text
  ELSE IF content.kind = "array" THEN JoinParts(content.parts)
  ELSE IF content.kind = "nullish" THEN <<>>
  ELSE content.text

\* getEncoder (lines 65-72): the first call starts loading the primary
\* profile and stores the promise; every other call returns the stored one.
getEncoderAlwaysLoads(cached, started) ==
  Append(started, [profile |-> "primary", state |-> "pending"])

getEncoder(cached, started) ==
  IF cached = "unset"
  THEN Append(started, [profile |-> "primary", state |-> "pending"])
  ELSE started

(* ---------------------------- trimMessages ---------------------------- *)
Reverse(s) == [i \in 1..Len(s) |-> s[Len(s) + 1 - i]]

Min(S) == CHOOSE x \in S : \A y \in S : x <= y

\* Number of leading messages kept by the 'first' strategy: the longest
\* prefix whose token count is within the budget (0 when none fits).
FirstIdxOffByOne(msgs, budget) ==
  LET n == Len(msgs)
      fits == {i \in 0..(n - 1) : tiktokenCounter(SubSeq(msgs, 1, n - i)) <= budget}
  IN IF fits = {} THEN (IF n > 0 THEN 1 ELSE 0)
     ELSE IF n - Min(fits) < n THEN n - Min(fits) + 1 ELSE n

FirstIdx(msgs, budget) ==
  LET n == Len(msgs)
      fits == {i \in 0..(n - 1) : tiktokenCounter(SubSeq(msgs, 1, n - i)) <= budget}
  IN IF fits = {} THEN 0 ELSE n - Min(fits)

firstMaxTokens(msgs, budget) == SubSeq(msgs, 1, FirstIdx(msgs, budget))

\* A message object is [ref, row, type, content]: ref is the object's
\* identity, row its position in the loaded history.  trimMessages with
\* strategy 'last' either hands back the objects it was given or fresh
\* objects with the same fields, depending on the installed library.
CopyMessages(msgs, copies) ==
  IF copies THEN [i \in 1..Len(msgs) |-> [msgs[i] EXCEPT !.ref = Len(msgs) + i]]
  ELSE msgs

trimMessages(msgs, budget, copies) ==
  Reverse(firstMaxTokens(Reverse(CopyMessages(msgs, copies)), budget))

Range(s) == {s[i] : i \in 1..Len(s)}

\* trimmedWindow.filter(msg => !(msg instanceof HumanMessage && msg.content === input))
FilterLastOnly(window, input) ==
  IF window # <<>> /\ window[Len(window)].type = "human"
                  /\ window[Len(window)].content = input
  THEN SubSeq(window, 1, Len(window) - 1)
  ELSE window

FilterCurrentInput(window, input) ==
  SelectSeq(window, LAMBDA m : ~(m.type = "human" /\ m.content = input))

\* const windowSet = new Set(trimmedWindow); fullHistory.filter(m => !windowSet.has(m))
OverflowDropsOldest(history, window) ==
  LET refs == {m.ref : m \in Range(window)}
      all == SelectSeq(history, LAMBDA m : m.ref \notin refs)
  IN IF all = <<>> THEN <<>> ELSE Tail(all)

OverflowOf(history, window) ==
  LET refs == {m.ref : m \in Range(window)}
  IN SelectSeq(history, LAMBDA m : m.ref \notin refs)

(* ----------------------------- summarizer ----------------------------- *)
\* A summary is the sequence of facts [type, content] it condenses; the
\* completion service is modelled as echoing the facts it is given.
Fact(m) == [type |-> m.type, content |-> m.content]

\* formatMessageForSummary / the historyText map of the overflow
FormatForSummary(msgs) == [i \in 1..Len(msgs) |-> Fact(msgs[i])]

\* [a, b].filter(Boolean).join('\n')
JoinNonEmpty(a, b) == a \o b

\* The merge prompt: the old summary (a placeholder without facts when it
\* is empty) and the delta, condensed into the new summary.
MergeSummary(old, delta) == old \o delta

(* ------------------------------- state -------------------------------- *)
VARIABLES
  trimCopies,  \* whether the installed trimMessages returns fresh objects
  sessions,    \* chat_sessions: row id -> [title, user, summary]
  log,         \* chat_messages in insertion order: [sid, type, content]
  req,         \* the requests: position in the handler and its locals
  faults,      \* failures of external calls injected so far
  pools,       \* the pg Pool objects constructed so far, by place of construction
  encPromise,  \* the module-level cache of getEncoder
  loads,       \* the calls of encodingForModel made so far, by profile
  calls        \* the token-count calls: position, content and outcome

procVars == <<pools, encPromise, loads, calls>>

vars == <<trimCopies, sessions, log, req, faults, pools, encPromise, loads, calls>>

\* The pools constructed when the route modules are loaded.
ModulePools == <<"summary:37", "optimize:43", "database:84">>

Callers == 1..MaxCalls

IdleCall ==
  [pc |-> "idle", fn |-> "none", kind |-> "none", type |-> "none",
   text |-> <<>>, parts |-> <<>>, seen |-> "none", enc |-> "none", result |-> 0]

ProcInit ==
  /\ pools = ModulePools
  /\ encPromise = "unset"
  /\ loads = <<>>
  /\ calls = [c \in Callers |-> IdleCall]

Blank ==
  [pc |-> "idle", handler |-> "none", sessionId |-> 0, userId |-> 0,
   hasText |-> FALSE, text |-> <<>>, currentSessionId |-> 0, persistedSummary |-> <<>>,
   fullHistory |-> <<>>, input |-> <<>>, trimmedWindow |-> <<>>,
   recentWindow |-> <<>>, overflow |-> <<>>, overflowSummary |-> <<>>,
   summaryForThisTurn |-> <<>>, called |-> FALSE, assistantText |-> <<>>,
   status |-> 0, header |-> 0, stream |-> "none", chunks |-> 0,
   trace |-> <<>>, failed |-> {}, log0 |-> 0, created |-> 0,
   trimmed |-> FALSE, messages |-> <<>>, connects |-> 0, releases |-> 0,
   canSaveToDatabase |-> TRUE,
   hasDatabaseError |-> FALSE]

Human(c) == [sid |-> 1, type |-> "human", content |-> c]
Ai(c) == [sid |-> 1, type |-> "ai", content |-> c]
System(c) == [sid |-> 1, type |-> "system", content |-> c]

SeedSession == [title |-> Short, user |-> 1, summary |-> <<>>]

\* Message logs an earlier run of the handlers can have left for session 1.
SeedLogs ==
  { <<>>,
    <<Human(Short), Ai(Other)>>,
    <<Human(Long), Ai(Long), Human(Short), Ai(Other)>>,
    <<Human(Short), Ai(Other), Human(Huge)>> }

SeedMessages ==
  {Human(Short), Human(Long), Human(Huge), Ai(Other), Ai(Long), System(Short)}

RECURSIVE SeqsUpTo(_, _)
SeqsUpTo(S, n) ==
  IF n = 0 THEN {<<>>}
  ELSE LET shorter == SeqsUpTo(S, n - 1)
       IN shorter \cup {Append(s, x) : s \in shorter, x \in S}

Init ==
  /\ trimCopies \in BOOLEAN
  /\ sessions = <<SeedSession>>
  /\ log \in SeedLogs
  /\ req = [r \in Reqs |-> Blank]
  /\ faults = 0
  /\ ProcInit

\* Every history of at most MaxHist messages, one fault-free turn on it.
InitTrim ==
  /\ trimCopies \in BOOLEAN
  /\ sessions = <<SeedSession>>
  /\ log \in SeqsUpTo(SeedMessages, MaxHist)
  /\ req = [r \in Reqs |-> Blank]
  /\ faults = MaxFaults
  /\ ProcInit

(* ------------------------------ storage ------------------------------- *)
\* rows?.[0]?.summary ?? ''
SummaryOf(sid) ==
  IF sid \in 1..Len(sessions) THEN sessions[sid].summary ELSE <<>>

\* PostgresChatMessageHistory.getMessages(): fresh objects, oldest first
GetMessages(sid) ==
  LET rows == SelectSeq(log, LAMBDA w : w.sid = sid)
  IN [i \in 1..Len(rows) |->
        [ref |-> i, row |-> i, type |-> rows[i].type, content |-> rows[i].content]]

\* uuidv4(): never equal to an id the database assigns
uuidv4(r) == 0 - r

\* An external call either succeeds or, while faults remain, fails.
\* const client = await pool.connect(); try { ... } finally { client.release() }:
\* a block entered with a connection counts one acquisition and one release.
Count(got) == IF got THEN 1 ELSE 0

Outcomes == IF faults < MaxFaults THEN {TRUE, FALSE} ELSE {TRUE}
Charge(ok) == faults' = IF ok THEN faults ELSE faults + 1

\* controller.close() and controller.error(e) on the response stream: after
\* the consumer has cancelled it, close() throws into the catch of the start
\* callback and error() changes nothing.
CloseStream(s) == IF s = "cancelled" THEN "cancelled" ELSE "closed"
ErrorStream(s) == IF s = "cancelled" THEN "cancelled" ELSE "errored"

AllQuiet(r) == \A q \in Reqs \ {r} : req[q].pc \in {"idle", "done", "retired"}
InOrder(r) == IF r = 1 THEN TRUE ELSE req[r - 1].pc = "done"

KnownIds ==
  (1..Len(sessions))
    \cup {req[q].header : q \in {p \in Reqs : req[p].pc \in {"done", "retired"}}}

InputTexts == {<<>>, Short, AtLimit, OverLimit}
Bodies ==
  {[has |-> FALSE, text |-> <<>>]} \cup {[has |-> TRUE, text |-> t] : t \in InputTexts}
Handlers == {"summary", "optimize"}

FirstPc(h, sid) ==
  IF h \in {"summary", "tool"}
  THEN (IF sid = 0 THEN "sum_create" ELSE "sum_read_summary")
  ELSE IF h = "get" THEN "get_check"
  ELSE IF h = "hybrid" THEN (IF sid = 0 THEN "hyb_create" ELSE "hyb_load")
  ELSE "opt_load"

(* ------------------------- request arrival ---------------------------- *)
\* A finished request keeps only what its client retains: the session id
\* of the response header.
Retired(x) == [Blank EXCEPT !.pc = "retired", !.header = x.header]

\* const { messages, sessionId, userId } = await req.json(); the body holds
\* one user message, with one text part or with none.
Begin(r, h, sid, uid, body) ==
  /\ req[r].pc = "idle"
  /\ InOrder(r)
  /\ req' = [q \in Reqs |->
       IF q = r
       THEN [Blank EXCEPT !.pc = FirstPc(h, sid), !.handler = h, !.sessionId = sid,
                          !.userId = uid, !.hasText = body.has,
                          !.text = body.text, !.log0 = Len(log),
                          !.currentSessionId =
                             IF sid # 0 THEN sid
                             ELSE IF h = "optimize" THEN uuidv4(r) ELSE 0]
       ELSE IF req[q].pc = "done" THEN Retired(req[q])
       ELSE req[q]]
  /\ UNCHANGED <<trimCopies, sessions, log, faults>>
  /\ UNCHANGED procVars

Start(r) ==
  /\ AllQuiet(r)
  /\ \E h \in Handlers, sid \in {0} \cup KnownIds, body \in Bodies :
       \E uid \in (IF sid = 0 THEN {0, 1} ELSE {1}) :
          Begin(r, h, sid, uid, body)

StartTrim(r) ==
  /\ r = 1
  /\ \E h \in Handlers \cup {"tool"}, text \in {Short, Other} :
       Begin(r, h, 1, 1, [has |-> TRUE, text |-> text])

(* ------------------ chat_06_history_summary POST ---------------------- *)
\* Step 2 (lines 149-173): INSERT the session when none was supplied.
SumCreateSession(r) ==
  /\ req[r].pc = "sum_create"
  /\ \E ok \in (IF req[r].userId = 0 THEN {TRUE} ELSE Outcomes), got \in BOOLEAN :
       /\ ok => got
       /\ Charge(ok)
       /\ IF req[r].userId = 0
          THEN /\ req' = [req EXCEPT ![r].pc = "done", ![r].status = 500,
                                     ![r].connects = @ + 1, ![r].releases = @ + 1]
               /\ UNCHANGED sessions
          ELSE IF ok
          THEN /\ sessions' = Append(sessions,
                     [title |-> SummaryTitle(req[r].hasText, req[r].text),
                      user |-> req[r].userId, summary |-> <<>>])
               /\ req' = [req EXCEPT ![r].pc = "sum_read_summary",
                                     ![r].currentSessionId = Len(sessions) + 1,
                                     ![r].created = Len(sessions) + 1,
                                     ![r].trace = Append(@, "insert_session"),
                                     ![r].connects = @ + Count(got), ![r].releases = @ + Count(got)]
          ELSE /\ req' = [req EXCEPT ![r].pc = "done", ![r].status = 500,
                                     ![r].trace = Append(@, "insert_session"),
                                     ![r].connects = @ + Count(got), ![r].releases = @ + Count(got),
                                     ![r].failed = @ \cup {"insert_session"}]
               /\ UNCHANGED sessions
  /\ UNCHANGED <<trimCopies, log>>
  /\ UNCHANGED procVars

\* Step 3 (lines 178-188): SELECT summary.
SumReadSummary(r) ==
  /\ req[r].pc = "sum_read_summary"
  /\ \E ok \in Outcomes, got \in BOOLEAN :
       /\ ok => got
       /\ Charge(ok)
       /\ req' = IF ok
                 THEN [req EXCEPT ![r].pc = "sum_load_history",
                                  ![r].persistedSummary = SummaryOf(req[r].currentSessionId),
                                  ![r].trace = Append(@, "select_summary"),
                                  ![r].connects = @ + Count(got), ![r].releases = @ + Count(got)]
                 ELSE [req EXCEPT ![r].pc = "done", ![r].status = 500,
                                  ![r].trace = Append(@, "select_summary"),
                                  ![r].connects = @ + Count(got), ![r].releases = @ + Count(got),
                                  ![r].failed = @ \cup {"select_summary"}]
  /\ UNCHANGED <<trimCopies, sessions, log>>
  /\ UNCHANGED procVars

\* Steps 5-6 (lines 203-227): load the history, then extract the input and
\* reject an empty one.
SumLoadHistory(r) ==
  /\ req[r].pc = "sum_load_history"
  /\ \E ok \in Outcomes :
       /\ Charge(ok)
       /\ req' = IF ~ok
                 THEN [req EXCEPT ![r].pc = "done", ![r].status = 500,
                                  ![r].trace = Append(@, "get_messages"),
                                  ![r].failed = @ \cup {"get_messages"}]
                 ELSE IF req[r].text = <<>>
                 THEN [req EXCEPT ![r].pc = "done", ![r].status = 400,
                                  ![r].fullHistory = GetMessages(req[r].currentSessionId),
                                  ![r].trace = Append(@, "get_messages")]
                 ELSE [req EXCEPT ![r].pc = "sum_trim",
                                  ![r].fullHistory = GetMessages(req[r].currentSessionId),
                                  ![r].input = req[r].text,
                                  ![r].trace = Append(@, "get_messages")]
  /\ pools' = IF req[r].handler = "summary"
              THEN Append(pools, "summary:206") ELSE pools
  /\ UNCHANGED <<trimCopies, sessions, log, encPromise, loads, calls>>

\* Step 7 (lines 236-258): trim, filter the current input, compute overflow.
SumTrim(r) ==
  /\ req[r].pc = "sum_trim"
  /\ LET h == req[r].fullHistory
         w == trimMessages(h, maxTokens, trimCopies)
         o == OverflowOf(h, w)
     IN req' = IF req[r].sessionId # 0 /\ h # <<>>
               THEN [req EXCEPT ![r].pc = IF o # <<>> THEN "sum_overflow" ELSE "sum_stream",
                                ![r].trimmed = TRUE,
                                ![r].trimmedWindow = w,
                                ![r].recentWindow = FilterCurrentInput(w, req[r].input),
                                ![r].overflow = o]
               ELSE [req EXCEPT ![r].pc = "sum_stream"]
  /\ UNCHANGED <<trimCopies, sessions, log, faults>>
  /\ UNCHANGED procVars

\* Lines 259-276: summarize the overflow; a failure is logged and ignored.
SumOverflowFailureSurfaces(r) ==
  /\ req[r].pc = "sum_overflow"
  /\ \E ok \in Outcomes :
       /\ Charge(ok)
       /\ req' = IF ok
                 THEN [req EXCEPT ![r].pc = "sum_stream",
                                  ![r].overflowSummary = FormatForSummary(req[r].overflow),
                                  ![r].trace = Append(@, "summarize")]
                 ELSE [req EXCEPT ![r].pc = "done", ![r].status = 500,
                                  ![r].trace = Append(@, "summarize"),
                                  ![r].failed = @ \cup {"summarize"}]
  /\ UNCHANGED <<trimCopies, sessions, log>>
  /\ UNCHANGED procVars

SumOverflow(r) ==
  /\ req[r].pc = "sum_overflow"
  /\ \E ok \in Outcomes :
       /\ Charge(ok)
       /\ req' = IF ok
                 THEN [req EXCEPT ![r].pc = "sum_stream",
                                  ![r].overflowSummary = FormatForSummary(req[r].overflow),
                                  ![r].trace = Append(@, "summarize")]
                 ELSE [req EXCEPT ![r].pc = "sum_stream",
                                  ![r].trace = Append(@, "summarize"),
                                  ![r].failed = @ \cup {"summarize"}]
  /\ UNCHANGED <<trimCopies, sessions, log>>
  /\ UNCHANGED procVars

\* Lines 280-299: merge the summaries and open the completion stream.
SumStream(r) ==
  /\ req[r].pc = "sum_stream"
  /\ \E ok \in Outcomes :
       /\ Charge(ok)
       /\ req' = IF ok
                 THEN [req EXCEPT ![r].pc = IF req[r].handler = "tool"
                                            THEN "tool_add_user" ELSE "sum_add_user",
                                  ![r].summaryForThisTurn =
                                     JoinNonEmpty(req[r].persistedSummary, req[r].overflowSummary),
                                  ![r].called = TRUE,
                                  ![r].trace = Append(@, "model")]
                 ELSE [req EXCEPT ![r].pc = "done", ![r].status = 500,
                                  ![r].trace = Append(@, "model"),
                                  ![r].failed = @ \cup {"model"}]
  /\ UNCHANGED <<trimCopies, sessions, log>>
  /\ UNCHANGED procVars

\* Step 10 (line 304), then the response with its stream is returned
\* (lines 310, 362-365).
SumAddUser(r) ==
  /\ req[r].pc = "sum_add_user"
  /\ \E ok \in Outcomes :
       /\ Charge(ok)
       /\ IF ok
          THEN /\ log' = Append(log, [sid |-> req[r].currentSessionId,
                                      type |-> "human", content |-> req[r].input])
               /\ req' = [req EXCEPT ![r].pc = "sum_streaming", ![r].status = 200,
                                     ![r].header = req[r].currentSessionId,
                                     ![r].stream = "open",
                                     ![r].trace = Append(@, "add_user")]
          ELSE /\ req' = [req EXCEPT ![r].pc = "done", ![r].status = 500,
                                     ![r].trace = Append(@, "add_user"),
                                     ![r].failed = @ \cup {"add_user"}]
               /\ UNCHANGED log
  /\ UNCHANGED <<trimCopies, sessions>>
  /\ UNCHANGED procVars

\* Lines 314-317: one chunk arrives and is enqueued.
SumChunk(r) ==
  /\ req[r].pc = "sum_streaming"
  /\ req[r].chunks < MaxChunks
  /\ req' = IF req[r].stream = "cancelled"
            THEN [req EXCEPT ![r].pc = "done",
                             ![r].assistantText = Concat(@, Rep("r", 1))]
            ELSE [req EXCEPT ![r].chunks = @ + 1,
                             ![r].assistantText = Concat(@, Rep("r", 1)),
                             ![r].trace = Append(@, "chunk")]
  /\ UNCHANGED <<trimCopies, sessions, log, faults>>
  /\ UNCHANGED procVars

\* The stream is exhausted (lines 318-322, 352).
SumStreamEnd(r) ==
  /\ req[r].pc = "sum_streaming"
  /\ req' = IF req[r].assistantText # <<>>
            THEN [req EXCEPT ![r].pc = "sum_add_ai", ![r].trace = Append(@, "end")]
            ELSE [req EXCEPT ![r].pc = "done", ![r].stream = CloseStream(@),
                             ![r].trace = Append(@, "end")]
  /\ UNCHANGED <<trimCopies, sessions, log, faults>>
  /\ UNCHANGED procVars

\* The stream raises (lines 353-355): controller.error.
SumStreamErrorPersists(r) ==
  /\ req[r].pc = "sum_streaming"
  /\ faults < MaxFaults
  /\ faults' = faults + 1
  /\ log' = Append(log, [sid |-> req[r].currentSessionId,
                         type |-> "ai", content |-> req[r].assistantText])
  /\ req' = [req EXCEPT ![r].pc = "done", ![r].stream = ErrorStream(@),
                        ![r].failed = @ \cup {"stream"}]
  /\ UNCHANGED <<trimCopies, sessions>>
  /\ UNCHANGED procVars

SumStreamError(r) ==
  /\ req[r].pc = "sum_streaming"
  /\ faults < MaxFaults
  /\ faults' = faults + 1
  /\ req' = [req EXCEPT ![r].pc = "done", ![r].stream = ErrorStream(@),
                        ![r].failed = @ \cup {"stream"}]
  /\ UNCHANGED <<trimCopies, sessions, log>>
  /\ UNCHANGED procVars

\* Step 12 (line 323): a failure reaches the catch of line 353.
SumAddAI(r) ==
  /\ req[r].pc = "sum_add_ai"
  /\ \E ok \in Outcomes :
       /\ Charge(ok)
       /\ IF ok
          THEN /\ log' = Append(log, [sid |-> req[r].currentSessionId,
                                      type |-> "ai", content |-> req[r].assistantText])
               /\ req' = [req EXCEPT ![r].pc = "sum_merge",
                                     ![r].trace = Append(@, "add_ai")]
          ELSE /\ req' = [req EXCEPT ![r].pc = "done", ![r].stream = ErrorStream(@),
                                     ![r].trace = Append(@, "add_ai"),
                                     ![r].failed = @ \cup {"add_ai"}]
               /\ UNCHANGED log
  /\ UNCHANGED <<trimCopies, sessions>>
  /\ UNCHANGED procVars

\* The delta of the end-of-turn merge (line 336).
SumDelta(r) ==
  req[r].overflowSummary
    \o << [type |-> "human", content |-> req[r].input],
          [type |-> "ai", content |-> req[r].assistantText] >>

\* Step 13 (lines 328-337): the merge call; a failure is caught at 347.
SumMergeFailureErrors(r) ==
  /\ req[r].pc = "sum_merge"
  /\ \E ok \in Outcomes :
       /\ Charge(ok)
       /\ req' = IF ok
                 THEN [req EXCEPT ![r].pc = "sum_update",
                                  ![r].trace = Append(@, "merge")]
                 ELSE [req EXCEPT ![r].pc = "done", ![r].stream = ErrorStream(@),
                                  ![r].trace = Append(@, "merge"),
                                  ![r].failed = @ \cup {"merge"}]
  /\ UNCHANGED <<trimCopies, sessions, log>>
  /\ UNCHANGED procVars

SumMerge(r) ==
  /\ req[r].pc = "sum_merge"
  /\ \E ok \in Outcomes :
       /\ Charge(ok)
       /\ req' = IF ok
                 THEN [req EXCEPT ![r].pc = "sum_update",
                                  ![r].trace = Append(@, "merge")]
                 ELSE [req EXCEPT ![r].pc = "done", ![r].stream = CloseStream(@),
                                  ![r].trace = Append(@, "merge"),
                                  ![r].failed = @ \cup {"merge"}]
  /\ UNCHANGED <<trimCopies, sessions, log>>
  /\ UNCHANGED procVars

\* Lines 338-352: UPDATE chat_sessions SET summary, then controller.close.
SumUpdateMergesCurrent(r) ==
  /\ req[r].pc = "sum_update"
  /\ \E ok \in Outcomes :
       /\ Charge(ok)
       /\ sessions' =
            IF ok /\ req[r].currentSessionId \in 1..Len(sessions)
            THEN [sessions EXCEPT ![req[r].currentSessionId].summary =
                    MergeSummary(SummaryOf(req[r].currentSessionId), SumDelta(r))]
            ELSE sessions
       /\ req' = [req EXCEPT ![r].pc = "done", ![r].stream = CloseStream(@),
                             ![r].trace = Append(@, "update_summary"),
                             ![r].failed = IF ok THEN @ ELSE @ \cup {"update_summary"}]
  /\ UNCHANGED <<trimCopies, log>>
  /\ UNCHANGED procVars

SumUpdateFirstWins(r) ==
  /\ req[r].pc = "sum_update"
  /\ \E ok \in Outcomes :
       /\ Charge(ok)
       /\ sessions' =
            IF ok /\ req[r].currentSessionId \in 1..Len(sessions)
                  /\ SummaryOf(req[r].currentSessionId) = req[r].persistedSummary
            THEN [sessions EXCEPT ![req[r].currentSessionId].summary =
                    MergeSummary(req[r].persistedSummary, SumDelta(r))]
            ELSE sessions
       /\ req' = [req EXCEPT ![r].pc = "done", ![r].stream = CloseStream(@),
                             ![r].trace = Append(@, "update_summary"),
                             ![r].failed = IF ok THEN @ ELSE @ \cup {"update_summary"}]
  /\ UNCHANGED <<trimCopies, log>>
  /\ UNCHANGED procVars

SumUpdate(r) ==
  /\ req[r].pc = "sum_update"
  /\ \E ok \in Outcomes, got \in BOOLEAN :
       /\ ok => got
       /\ Charge(ok)
       /\ IF ok
          THEN /\ sessions' =
                    IF req[r].currentSessionId \in 1..Len(sessions)
                    THEN [sessions EXCEPT ![req[r].currentSessionId].summary =
                            MergeSummary(req[r].persistedSummary, SumDelta(r))]
                    ELSE sessions
               /\ req' = [req EXCEPT ![r].pc = "done", ![r].stream = CloseStream(@),
                                     ![r].trace = Append(@, "update_summary"),
                                     ![r].connects = @ + Count(got), ![r].releases = @ + Count(got)]
          ELSE /\ req' = [req EXCEPT ![r].pc = "done", ![r].stream = CloseStream(@),
                                     ![r].trace = Append(@, "update_summary"),
                                     ![r].connects = @ + Count(got), ![r].releases = @ + Count(got),
                                     ![r].failed = @ \cup {"update_summary"}]
               /\ UNCHANGED sessions
  /\ UNCHANGED <<trimCopies, log>>
  /\ UNCHANGED procVars

(* ------------------ chat_06_history_optimize POST --------------------- *)
\* Steps 2-3 (lines 160-185): for an existing session read the summary and
\* the history; then extract the input and reject an empty one.
OptLoad(r) ==
  /\ req[r].pc = "opt_load"
  /\ \E ok \in (IF req[r].sessionId = 0 THEN {TRUE} ELSE Outcomes) :
       /\ Charge(ok)
       /\ LET read == req[r].sessionId # 0
              t == IF read THEN Append(Append(req[r].trace, "select_summary"), "get_messages")
                   ELSE req[r].trace
          IN req' = IF ~ok
                    THEN [req EXCEPT ![r].pc = "done", ![r].status = 500,
                                     ![r].trace = t,
                                     ![r].failed = @ \cup {"get_messages"}]
                    ELSE IF req[r].text = <<>>
                    THEN [req EXCEPT ![r].pc = "done", ![r].status = 400,
                                     ![r].trace = t]
                    ELSE [req EXCEPT ![r].pc = "opt_trim",
                                     ![r].persistedSummary =
                                        IF read THEN SummaryOf(req[r].currentSessionId) ELSE <<>>,
                                     ![r].fullHistory =
                                        IF read THEN GetMessages(req[r].currentSessionId) ELSE <<>>,
                                     ![r].input = req[r].text,
                                     ![r].trace = t]
  /\ UNCHANGED <<trimCopies, sessions, log>>
  /\ UNCHANGED procVars

\* Step 4 (lines 191-193): the window is the trimmed history, unfiltered.
OptTrim(r) ==
  /\ req[r].pc = "opt_trim"
  /\ LET h == req[r].fullHistory
         w == IF h # <<>> THEN trimMessages(h, maxTokens, trimCopies) ELSE <<>>
     IN req' = [req EXCEPT ![r].pc = "opt_add_user",
                           ![r].trimmed = h # <<>>,
                           ![r].trimmedWindow = w,
                           ![r].recentWindow = w]
  /\ UNCHANGED <<trimCopies, sessions, log, faults>>
  /\ UNCHANGED procVars

\* Line 217: the user message is stored under currentSessionId.
OptAddUser(r) ==
  /\ req[r].pc = "opt_add_user"
  /\ \E ok \in Outcomes :
       /\ Charge(ok)
       /\ IF ok
          THEN /\ log' = Append(log, [sid |-> req[r].currentSessionId,
                                      type |-> "human", content |-> req[r].input])
               /\ req' = [req EXCEPT ![r].pc = "opt_stream",
                                     ![r].trace = Append(@, "add_user")]
          ELSE /\ req' = [req EXCEPT ![r].pc = "done", ![r].status = 500,
                                     ![r].trace = Append(@, "add_user"),
                                     ![r].failed = @ \cup {"add_user"}]
               /\ UNCHANGED log
  /\ UNCHANGED <<trimCopies, sessions>>
  /\ UNCHANGED procVars

\* Lines 220-224 and 264-267: open the completion stream with the persisted
\* summary alone and return the response.
OptStream(r) ==
  /\ req[r].pc = "opt_stream"
  /\ \E ok \in Outcomes :
       /\ Charge(ok)
       /\ req' = IF ok
                 THEN [req EXCEPT ![r].pc = "opt_streaming", ![r].status = 200,
                                  ![r].header = req[r].currentSessionId,
                                  ![r].stream = "open",
                                  ![r].summaryForThisTurn = req[r].persistedSummary,
                                  ![r].called = TRUE,
                                  ![r].trace = Append(@, "model")]
                 ELSE [req EXCEPT ![r].pc = "done", ![r].status = 500,
                                  ![r].trace = Append(@, "model"),
                                  ![r].failed = @ \cup {"model"}]
  /\ UNCHANGED <<trimCopies, sessions, log>>
  /\ UNCHANGED procVars

\* Lines 230-233.
OptChunk(r) ==
  /\ req[r].pc = "opt_streaming"
  /\ req[r].chunks < MaxChunks
  /\ req' = IF req[r].stream = "cancelled"
            THEN [req EXCEPT ![r].pc = "done",
                             ![r].assistantText = Concat(@, Rep("r", 1))]
            ELSE [req EXCEPT ![r].chunks = @ + 1,
                             ![r].assistantText = Concat(@, Rep("r", 1)),
                             ![r].trace = Append(@, "chunk")]
  /\ UNCHANGED <<trimCopies, sessions, log, faults>>
  /\ UNCHANGED procVars

\* Lines 234-237: controller.close, then the background persistence.
OptStreamEnd(r) ==
  /\ req[r].pc = "opt_streaming"
  /\ req' = IF req[r].stream = "cancelled"
            THEN [req EXCEPT ![r].pc = "done", ![r].trace = Append(@, "end")]
            ELSE [req EXCEPT ![r].pc = IF req[r].assistantText # <<>>
                                       THEN "opt_add_ai" ELSE "done",
                             ![r].stream = "closed",
                             ![r].trace = Append(@, "end")]
  /\ UNCHANGED <<trimCopies, sessions, log, faults>>
  /\ UNCHANGED procVars

\* Lines 257-260.
OptStreamError(r) ==
  /\ req[r].pc = "opt_streaming"
  /\ faults < MaxFaults
  /\ faults' = faults + 1
  /\ req' = [req EXCEPT ![r].pc = "done", ![r].stream = ErrorStream(@),
                        ![r].failed = @ \cup {"stream"}]
  /\ UNCHANGED <<trimCopies, sessions, log>>
  /\ UNCHANGED procVars

\* Line 240; a failure is caught at line 253.
OptAddAI(r) ==
  /\ req[r].pc = "opt_add_ai"
  /\ \E ok \in Outcomes :
       /\ Charge(ok)
       /\ IF ok
          THEN /\ log' = Append(log, [sid |-> req[r].currentSessionId,
                                      type |-> "ai", content |-> req[r].assistantText])
               /\ req' = [req EXCEPT ![r].pc =
                                        IF req[r].sessionId # 0 THEN "opt_merge"
                                        ELSE IF req[r].userId = 0 THEN "done"
                                        ELSE "opt_insert",
                                     ![r].trace = Append(@, "add_ai")]
          ELSE /\ req' = [req EXCEPT ![r].pc = "done",
                                     ![r].trace = Append(@, "add_ai"),
                                     ![r].failed = @ \cup {"add_ai"}]
               /\ UNCHANGED log
  /\ UNCHANGED <<trimCopies, sessions>>
  /\ UNCHANGED procVars

\* createSessionAndUpdateMessages, lines 293-305: INSERT the session.
OptInsertSessionKeepsClient(r) ==
  /\ req[r].pc = "opt_insert"
  /\ \E ok \in Outcomes, got \in BOOLEAN :
       /\ ok => got
       /\ Charge(ok)
       /\ IF ok
          THEN /\ sessions' = Append(sessions,
                     [title |-> OptimizeTitle(req[r].hasText, req[r].text),
                      user |-> req[r].userId, summary |-> <<>>])
               /\ req' = [req EXCEPT ![r].pc = "opt_relink",
                                     ![r].created = Len(sessions) + 1,
                                     ![r].trace = Append(@, "insert_session"),
                                     ![r].connects = @ + 1]
          ELSE /\ req' = [req EXCEPT ![r].pc = "done",
                                     ![r].trace = Append(@, "insert_session"),
                                     ![r].connects = @ + Count(got),
                                     ![r].failed = @ \cup {"insert_session"}]
               /\ UNCHANGED sessions
  /\ UNCHANGED <<trimCopies, log>>
  /\ UNCHANGED procVars

OptInsertSession(r) ==
  /\ req[r].pc = "opt_insert"
  /\ \E ok \in Outcomes, got \in BOOLEAN :
       /\ ok => got
       /\ Charge(ok)
       /\ IF ok
          THEN /\ sessions' = Append(sessions,
                     [title |-> OptimizeTitle(req[r].hasText, req[r].text),
                      user |-> req[r].userId, summary |-> <<>>])
               /\ req' = [req EXCEPT ![r].pc = "opt_relink",
                                     ![r].created = Len(sessions) + 1,
                                     ![r].trace = Append(@, "insert_session"),
                                     ![r].connects = @ + 1]
          ELSE /\ req' = [req EXCEPT ![r].pc = "done",
                                     ![r].trace = Append(@, "insert_session"),
                                     ![r].connects = @ + Count(got),
                                     ![r].releases = @ + Count(got),
                                     ![r].failed = @ \cup {"insert_session"}]
               /\ UNCHANGED sessions
  /\ UNCHANGED <<trimCopies, log>>
  /\ UNCHANGED procVars

\* Lines 307-310: UPDATE chat_messages SET session_id = permanent WHERE
\* session_id = temporary.
OptRelinkMessages(r) ==
  /\ req[r].pc = "opt_relink"
  /\ \E ok \in Outcomes :
       /\ Charge(ok)
       /\ IF ok
          THEN /\ log' = [i \in 1..Len(log) |->
                            IF log[i].sid = req[r].currentSessionId
                            THEN [log[i] EXCEPT !.sid = req[r].created]
                            ELSE log[i]]
               /\ req' = [req EXCEPT ![r].pc = "done",
                                     ![r].trace = Append(@, "relink"),
                                     ![r].releases = @ + 1]
          ELSE /\ req' = [req EXCEPT ![r].pc = "done",
                                     ![r].trace = Append(@, "relink"),
                                     ![r].releases = @ + 1,
                                     ![r].failed = @ \cup {"relink"}]
               /\ UNCHANGED log
  /\ UNCHANGED <<trimCopies, sessions>>
  /\ UNCHANGED procVars

\* newHistoryForSummary, lines 246-250.
OptDelta(r) ==
  FormatForSummary(req[r].recentWindow)
    \o << [type |-> "human", content |-> req[r].input],
          [type |-> "ai", content |-> req[r].assistantText] >>

\* updateSessionSummary, lines 325-334: the merge call.
OptMerge(r) ==
  /\ req[r].pc = "opt_merge"
  /\ \E ok \in Outcomes :
       /\ Charge(ok)
       /\ req' = IF ok
                 THEN [req EXCEPT ![r].pc = "opt_update",
                                  ![r].trace = Append(@, "merge")]
                 ELSE [req EXCEPT ![r].pc = "done",
                                  ![r].trace = Append(@, "merge"),
                                  ![r].failed = @ \cup {"merge"}]
  /\ UNCHANGED <<trimCopies, sessions, log>>
  /\ UNCHANGED procVars

\* updateSessionSummary, lines 336-339: UPDATE chat_sessions SET summary.
OptUpdate(r) ==
  /\ req[r].pc = "opt_update"
  /\ \E ok \in Outcomes :
       /\ Charge(ok)
       /\ IF ok
          THEN /\ sessions' =
                    IF req[r].currentSessionId \in 1..Len(sessions)
                    THEN [sessions EXCEPT ![req[r].currentSessionId].summary =
                            MergeSummary(req[r].persistedSummary, OptDelta(r))]
                    ELSE sessions
               /\ req' = [req EXCEPT ![r].pc = "done",
                                     ![r].trace = Append(@, "update_summary")]
          ELSE /\ req' = [req EXCEPT ![r].pc = "done",
                                     ![r].trace = Append(@, "update_summary"),
                                     ![r].failed = @ \cup {"update_summary"}]
               /\ UNCHANGED sessions
  /\ UNCHANGED <<trimCopies, log>>
  /\ UNCHANGED procVars

(* ------------- chat_07_history_with_tool_calling POST ----------------- *)
\* The handler of chat_07 (and of chat_08_rag, which differs in the chain
\* and in the marker of a search error) shares steps 2-9 with the summary
\* handler; its steps 10-13 follow.
\* Step 10 (lines 496-502): the append of the user message is tried; a
\* failure only clears canSaveToDatabase.
ToolAddUserFailureAborts(r) ==
  /\ req[r].pc = "tool_add_user"
  /\ \E ok \in Outcomes :
       /\ Charge(ok)
       /\ log' = IF ok
                 THEN Append(log, [sid |-> req[r].currentSessionId,
                                   type |-> "human", content |-> req[r].input])
                 ELSE log
       /\ req' = IF ok
                 THEN [req EXCEPT ![r].pc = "tool_streaming", ![r].status = 200,
                                  ![r].header = req[r].currentSessionId,
                                  ![r].stream = "open",
                                  ![r].trace = Append(@, "add_user")]
                 ELSE [req EXCEPT ![r].pc = "done", ![r].status = 500,
                                  ![r].canSaveToDatabase = FALSE,
                                  ![r].trace = Append(@, "add_user"),
                                  ![r].failed = @ \cup {"add_user"}]
  /\ UNCHANGED <<trimCopies, sessions>>
  /\ UNCHANGED procVars

ToolAddUser(r) ==
  /\ req[r].pc = "tool_add_user"
  /\ \E ok \in Outcomes :
       /\ Charge(ok)
       /\ log' = IF ok
                 THEN Append(log, [sid |-> req[r].currentSessionId,
                                   type |-> "human", content |-> req[r].input])
                 ELSE log
       /\ req' = [req EXCEPT ![r].pc = "tool_streaming", ![r].status = 200,
                             ![r].header = req[r].currentSessionId,
                             ![r].stream = "open",
                             ![r].canSaveToDatabase = ok,
                             ![r].trace = Append(@, "add_user"),
                             ![r].failed = IF ok THEN @ ELSE @ \cup {"add_user"}]
  /\ UNCHANGED <<trimCopies, sessions>>
  /\ UNCHANGED procVars

\* The apology that replaces an output holding the error marker.
FriendlyMessage == Rep("f", 1)

\* Lines 512-530: one chunk of output; when it holds the marker of a
\* database error the apology is enqueued and replaces the text so far.
ToolChunk(r) ==
  /\ req[r].pc = "tool_streaming"
  /\ req[r].chunks < MaxChunks
  /\ \E marker \in BOOLEAN :
       req' = IF req[r].stream = "cancelled"
              THEN [req EXCEPT ![r].pc = "done"]
              ELSE IF marker
              THEN [req EXCEPT ![r].chunks = @ + 1,
                               ![r].hasDatabaseError = TRUE,
                               ![r].assistantText = FriendlyMessage,
                               ![r].trace = Append(@, "chunk")]
              ELSE [req EXCEPT ![r].chunks = @ + 1,
                               ![r].assistantText = Concat(@, Rep("r", 1)),
                               ![r].trace = Append(@, "chunk")]
  /\ UNCHANGED <<trimCopies, sessions, log, faults>>
  /\ UNCHANGED procVars

\* Lines 535, 565-569: the stream is exhausted; the turn is persisted only
\* with text, without a database error and after a stored user message.
ToolStreamEndAlwaysSaves(r) ==
  /\ req[r].pc = "tool_streaming"
  /\ req' = IF req[r].assistantText # <<>>
            THEN [req EXCEPT ![r].pc = "tool_add_ai", ![r].trace = Append(@, "end")]
            ELSE [req EXCEPT ![r].pc = "done", ![r].stream = CloseStream(@),
                             ![r].trace = Append(@, "end")]
  /\ UNCHANGED <<trimCopies, sessions, log, faults>>
  /\ UNCHANGED procVars

ToolStreamEnd(r) ==
  /\ req[r].pc = "tool_streaming"
  /\ req' = IF /\ req[r].assistantText # <<>>
               /\ ~req[r].hasDatabaseError
               /\ req[r].canSaveToDatabase
            THEN [req EXCEPT ![r].pc = "tool_add_ai", ![r].trace = Append(@, "end")]
            ELSE [req EXCEPT ![r].pc = "done", ![r].stream = CloseStream(@),
                             ![r].trace = Append(@, "end")]
  /\ UNCHANGED <<trimCopies, sessions, log, faults>>
  /\ UNCHANGED procVars

\* Lines 570-572: the agent stream raises.
ToolStreamError(r) ==
  /\ req[r].pc = "tool_streaming"
  /\ faults < MaxFaults
  /\ faults' = faults + 1
  /\ req' = [req EXCEPT ![r].pc = "done", ![r].stream = ErrorStream(@),
                        ![r].failed = @ \cup {"stream"}]
  /\ UNCHANGED <<trimCopies, sessions, log>>
  /\ UNCHANGED procVars

\* Step 12 (line 538), inside the try of lines 537-564.
ToolAddAI(r) ==
  /\ req[r].pc = "tool_add_ai"
  /\ \E ok \in Outcomes :
       /\ Charge(ok)
       /\ log' = IF ok
                 THEN Append(log, [sid |-> req[r].currentSessionId,
                                   type |-> "ai", content |-> req[r].assistantText])
                 ELSE log
       /\ req' = IF ok
                 THEN [req EXCEPT ![r].pc = "tool_merge",
                                  ![r].trace = Append(@, "add_ai")]
                 ELSE [req EXCEPT ![r].pc = "done", ![r].stream = CloseStream(@),
                                  ![r].trace = Append(@, "add_ai"),
                                  ![r].failed = @ \cup {"add_ai"}]
  /\ UNCHANGED <<trimCopies, sessions>>
  /\ UNCHANGED procVars

\* Step 13 (lines 543-551): the merge call.
ToolMerge(r) ==
  /\ req[r].pc = "tool_merge"
  /\ \E ok \in Outcomes :
       /\ Charge(ok)
       /\ req' = IF ok
                 THEN [req EXCEPT ![r].pc = "tool_update",
                                  ![r].trace = Append(@, "merge")]
                 ELSE [req EXCEPT ![r].pc = "done", ![r].stream = CloseStream(@),
                                  ![r].trace = Append(@, "merge"),
                                  ![r].failed = @ \cup {"merge"}]
  /\ UNCHANGED <<trimCopies, sessions, log>>
  /\ UNCHANGED procVars

\* Lines 552-569: UPDATE chat_sessions SET summary, then controller.close.
ToolUpdate(r) ==
  /\ req[r].pc = "tool_update"
  /\ \E ok \in Outcomes, got \in BOOLEAN :
       /\ ok => got
       /\ Charge(ok)
       /\ sessions' =
            IF ok /\ req[r].currentSessionId \in 1..Len(sessions)
            THEN [sessions EXCEPT ![req[r].currentSessionId].summary =
                    MergeSummary(req[r].persistedSummary, SumDelta(r))]
            ELSE sessions
       /\ req' = [req EXCEPT ![r].pc = "done", ![r].stream = CloseStream(@),
                             ![r].trace = Append(@, "update_summary"),
                             ![r].connects = @ + Count(got), ![r].releases = @ + Count(got),
                             ![r].failed = IF ok THEN @ ELSE @ \cup {"update_summary"}]
  /\ UNCHANGED <<trimCopies, log>>
  /\ UNCHANGED procVars

ToolSteps(r) ==
  \/ ToolAddUser(r) \/ ToolChunk(r) \/ ToolStreamEnd(r) \/ ToolStreamError(r)
  \/ ToolAddAI(r) \/ ToolMerge(r) \/ ToolUpdate(r)

\* One turn of any of the three handlers, on session 1 or on a new session.
StartTurn(r) ==
  /\ r = 1
  /\ \E h \in Handlers \cup {"tool"}, sid \in {0, 1}, text \in {Short, Other} :
       Begin(r, h, sid, 1, [has |-> TRUE, text |-> text])

(* ------------------------- client disconnect -------------------------- *)
\* The consumer of the response goes away while the stream is open: the
\* ReadableStream of lines 310-357 (summary) or 227-262 (optimize) is
\* cancelled.  Neither start callback registers a cancel handler, so the
\* handler notices only at its next enqueue or close.
Disconnect(r) ==
  /\ req[r].stream = "open"
  /\ req' = [req EXCEPT ![r].stream = "cancelled",
                        ![r].trace = Append(@, "disconnect")]
  /\ UNCHANGED <<trimCopies, sessions, log, faults>>
  /\ UNCHANGED procVars

StartDrop(r) ==
  /\ r = 1
  /\ \E h \in Handlers, text \in {Short, Other} :
       Begin(r, h, 1, 1, [has |-> TRUE, text |-> text])

(* ------------------------- concurrent turns --------------------------- *)
\* Two requests of the summary handler on session 1 whose awaited calls
\* interleave freely.
StartConc(r) ==
  /\ req[r].pc = "idle"
  /\ \E text \in {Short, Other} :
       req' = [req EXCEPT ![r] =
                 [Blank EXCEPT !.pc = FirstPc("summary", 1), !.handler = "summary",
                               !.sessionId = 1, !.userId = 1, !.hasText = TRUE,
                               !.text = text, !.log0 = Len(log),
                               !.currentSessionId = 1]]
  /\ UNCHANGED <<trimCopies, sessions, log, faults>>
  /\ UNCHANGED procVars

ConcSeed == <<Human(Short), Ai(Other)>>

InitConc ==
  /\ trimCopies \in BOOLEAN
  /\ sessions = <<SeedSession>>
  /\ log = ConcSeed
  /\ req = [r \in Reqs |-> Blank]
  /\ faults = MaxFaults
  /\ ProcInit

(* ----------------------------- history GET ---------------------------- *)
\* let role = 'user'; if (type === 'ai') role = 'assistant'; else if
\* (type === 'human') role = 'user'
HistoryRoleSwapped(type) ==
  IF type = "ai" THEN "user" ELSE IF type = "human" THEN "assistant" ELSE "user"

HistoryRole(type) ==
  IF type = "ai" THEN "assistant" ELSE IF type = "human" THEN "user" ELSE "user"

\* SELECT ... FROM chat_messages WHERE session_id = $1 ORDER BY created_at
\* ASC, mapped to { id, role, content, createdAt }.  A row's created_at is
\* its position in the table, which grows with insertion time.
HistoryRows(sid) ==
  LET at == SelectSeq([i \in 1..Len(log) |-> i], LAMBDA i : log[i].sid = sid)
  IN [k \in 1..Len(at) |->
        [id |-> k - 1, role |-> HistoryRole(log[at[k]].type),
         content |-> log[at[k]].content, createdAt |-> at[k]]]

\* Step 1 of GET: 400 when the sessionId parameter is missing.
GetCheck(r) ==
  /\ req[r].pc = "get_check"
  /\ req' = IF req[r].sessionId = 0
            THEN [req EXCEPT ![r].pc = "done", ![r].status = 400]
            ELSE [req EXCEPT ![r].pc = "get_query"]
  /\ UNCHANGED <<trimCopies, sessions, log, faults>>
  /\ UNCHANGED procVars

\* Steps 2-4 of GET: connect, query, map, respond; a failure gives 500.
GetQuery(r) ==
  /\ req[r].pc = "get_query"
  /\ \E ok \in Outcomes, got \in BOOLEAN :
       /\ ok => got
       /\ Charge(ok)
       /\ req' = IF ok
                 THEN [req EXCEPT ![r].pc = "done", ![r].status = 200,
                                  ![r].messages = HistoryRows(req[r].sessionId),
                                  ![r].trace = Append(@, "select_messages"),
                                  ![r].connects = @ + Count(got), ![r].releases = @ + Count(got)]
                 ELSE [req EXCEPT ![r].pc = "done", ![r].status = 500,
                                  ![r].trace = Append(@, "select_messages"),
                                  ![r].connects = @ + Count(got), ![r].releases = @ + Count(got),
                                  ![r].failed = @ \cup {"select_messages"}]
  /\ UNCHANGED <<trimCopies, sessions, log>>
  /\ UNCHANGED procVars

StartGet(r) ==
  /\ r = 1
  /\ \E sid \in {0, 1, 2} : Begin(r, "get", sid, 0, [has |-> FALSE, text |-> <<>>])

OtherSession == [title |-> Other, user |-> 1, summary |-> <<>>]

GetSeedMessages ==
  {Human(Short), Ai(Other),
   [sid |-> 2, type |-> "human", content |-> Other],
   [sid |-> 2, type |-> "ai", content |-> Short]}

InitGet ==
  /\ trimCopies \in BOOLEAN
  /\ sessions = <<SeedSession, OtherSession>>
  /\ log \in SeqsUpTo(GetSeedMessages, MaxHist)
  /\ req = [r \in Reqs |-> Blank]
  /\ faults = 0
  /\ ProcInit

(* --------------------------- session listing -------------------------- *)
\* GET of the session API without sessionId: the sessions of the user,
\* newest first, at most ListLimit of them, each with its message count.
ListSessions(uid) ==
  LET ids == SelectSeq([i \in 1..Len(sessions) |-> i],
                       LAMBDA i : sessions[i].user = uid)
      newest == Reverse(ids)
      shown == SubSeq(newest, 1, IF Len(newest) < ListLimit THEN Len(newest) ELSE ListLimit)
  IN [k \in 1..Len(shown) |->
        [id |-> shown[k], title |-> sessions[shown[k]].title,
         user_id |-> uid,
         message_count |-> Cardinality({i \in 1..Len(log) : log[i].sid = shown[k]})]]

(* --------------------------- specifications --------------------------- *)
SumSteps(r) ==
  \/ SumReadSummary(r) \/ SumLoadHistory(r) \/ SumTrim(r) \/ SumOverflow(r)
  \/ SumStream(r) \/ SumAddUser(r) \/ SumChunk(r) \/ SumStreamEnd(r)
  \/ SumAddAI(r) \/ SumMerge(r) \/ SumUpdate(r)

OptSteps(r) ==
  \/ OptLoad(r) \/ OptTrim(r) \/ OptAddUser(r) \/ OptStream(r) \/ OptChunk(r)
  \/ OptStreamEnd(r) \/ OptAddAI(r) \/ OptMerge(r) \/ OptUpdate(r)

Next ==
  \E r \in Reqs :
    \/ Start(r)
    \/ SumCreateSession(r) \/ SumSteps(r) \/ SumStreamError(r)
    \/ OptSteps(r) \/ OptStreamError(r) \/ OptInsertSession(r) \/ OptRelinkMessages(r)

Spec == Init /\ [][Next]_vars

NextTrim == \E r \in Reqs : StartTrim(r) \/ SumSteps(r) \/ OptSteps(r)

SpecTrim == InitTrim /\ [][NextTrim]_vars

\* One fault-free turn on session 1 whose client may go away.
InitDrop ==
  /\ trimCopies \in BOOLEAN
  /\ sessions = <<SeedSession>>
  /\ log \in SeedLogs
  /\ req = [r \in Reqs |-> Blank]
  /\ faults = MaxFaults
  /\ ProcInit

NextDrop == \E r \in Reqs : StartDrop(r) \/ SumSteps(r) \/ OptSteps(r) \/ Disconnect(r)

SpecDrop == InitDrop /\ [][NextDrop]_vars

NextConc == \E r \in Reqs : StartConc(r) \/ SumSteps(r)

SpecConc == InitConc /\ [][NextConc]_vars

NextTurn ==
  \E r \in Reqs :
    \/ StartTurn(r)
    \/ SumCreateSession(r) \/ SumSteps(r) \/ SumStreamError(r)
    \/ OptSteps(r) \/ OptStreamError(r) \/ OptInsertSession(r) \/ OptRelinkMessages(r)
    \/ ToolSteps(r)

SpecTurn == Init /\ [][NextTurn]_vars

(* -------- chat_06_history_summary POST, getDatabase version ----------- *)
\* Step 1 (lines 588-591, createNewSession 734-755): a new session needs a
\* user id; the INSERT runs on a connection of its own.
HybCreateSession(r) ==
  /\ req[r].pc = "hyb_create"
  /\ \E ok \in (IF req[r].userId = 0 THEN {TRUE} ELSE Outcomes), got \in BOOLEAN :
       /\ ok => got
       /\ Charge(ok)
       /\ IF req[r].userId = 0
          THEN /\ req' = [req EXCEPT ![r].pc = "done", ![r].status = 500]
               /\ UNCHANGED sessions
          ELSE IF ok
          THEN /\ sessions' = Append(sessions,
                     [title |-> OptimizeTitle(req[r].hasText, req[r].text),
                      user |-> req[r].userId, summary |-> <<>>])
               /\ req' = [req EXCEPT ![r].pc = "hyb_load",
                                     ![r].currentSessionId = Len(sessions) + 1,
                                     ![r].created = Len(sessions) + 1,
                                     ![r].trace = Append(@, "insert_session"),
                                     ![r].connects = @ + 1, ![r].releases = @ + 1]
          ELSE /\ req' = [req EXCEPT ![r].pc = "done", ![r].status = 500,
                                     ![r].trace = Append(@, "insert_session"),
                                     ![r].connects = @ + Count(got),
                                     ![r].releases = @ + Count(got),
                                     ![r].failed = @ \cup {"insert_session"}]
               /\ UNCHANGED sessions
  /\ UNCHANGED <<trimCopies, log>>
  /\ UNCHANGED procVars

\* Steps 2-3 (lines 603-641): the summary and the stored history are read
\* together; the input is the text of the request's user message and an
\* empty one is rejected. fullHistory holds historyWithoutLastInput: the
\* stored history (empty for a session just created).
HybLoad(r) ==
  /\ req[r].pc = "hyb_load"
  /\ \E ok \in Outcomes :
       /\ Charge(ok)
       /\ req' = IF ~ok
                 THEN [req EXCEPT ![r].pc = "done", ![r].status = 500,
                                  ![r].trace = Append(@, "get_messages"),
                                  ![r].failed = @ \cup {"get_messages"}]
                 ELSE IF req[r].text = <<>>
                 THEN [req EXCEPT ![r].pc = "done", ![r].status = 400,
                                  ![r].persistedSummary = SummaryOf(req[r].currentSessionId),
                                  ![r].fullHistory = GetMessages(req[r].currentSessionId),
                                  ![r].trace = Append(@, "get_messages")]
                 ELSE [req EXCEPT ![r].pc = "hyb_trim",
                                  ![r].persistedSummary = SummaryOf(req[r].currentSessionId),
                                  ![r].fullHistory = GetMessages(req[r].currentSessionId),
                                  ![r].input = req[r].text,
                                  ![r].trace = Append(@, "get_messages")]
  /\ UNCHANGED <<trimCopies, sessions, log>>
  /\ UNCHANGED procVars

\* Step 4 (lines 646-648).
HybTrim(r) ==
  /\ req[r].pc = "hyb_trim"
  /\ LET h == req[r].fullHistory
         w == IF h # <<>> THEN trimMessages(h, maxTokens, trimCopies) ELSE <<>>
     IN req' = [req EXCEPT ![r].pc = "hyb_stream",
                           ![r].trimmed = h # <<>>,
                           ![r].trimmedWindow = w,
                           ![r].recentWindow = w]
  /\ UNCHANGED <<trimCopies, sessions, log, faults>>
  /\ UNCHANGED procVars

\* Lines 672-676 and 712-715: the completion stream is opened and the
\* response with its stream is returned.
HybStream(r) ==
  /\ req[r].pc = "hyb_stream"
  /\ \E ok \in Outcomes :
       /\ Charge(ok)
       /\ req' = IF ok
                 THEN [req EXCEPT ![r].pc = "hyb_streaming", ![r].status = 200,
                                  ![r].header = req[r].currentSessionId,
                                  ![r].stream = "open",
                                  ![r].summaryForThisTurn = req[r].persistedSummary,
                                  ![r].called = TRUE,
                                  ![r].trace = Append(@, "model")]
                 ELSE [req EXCEPT ![r].pc = "done", ![r].status = 500,
                                  ![r].trace = Append(@, "model"),
                                  ![r].failed = @ \cup {"model"}]
  /\ UNCHANGED <<trimCopies, sessions, log>>
  /\ UNCHANGED procVars

\* Lines 681-684: one chunk arrives and is enqueued.
HybChunk(r) ==
  /\ req[r].pc = "hyb_streaming"
  /\ req[r].chunks < MaxChunks
  /\ req' = IF req[r].stream = "cancelled"
            THEN [req EXCEPT ![r].pc = "done",
                             ![r].assistantText = Concat(@, Rep("r", 1))]
            ELSE [req EXCEPT ![r].chunks = @ + 1,
                             ![r].assistantText = Concat(@, Rep("r", 1)),
                             ![r].trace = Append(@, "chunk")]
  /\ UNCHANGED <<trimCopies, sessions, log, faults>>
  /\ UNCHANGED procVars

\* Lines 685-687: the stream is exhausted and closed; a non-empty answer
\* goes on to be stored. close() on a cancelled stream throws into the
\* catch of line 707.
HybStreamEnd(r) ==
  /\ req[r].pc = "hyb_streaming"
  /\ req' = IF req[r].assistantText # <<>> /\ req[r].stream # "cancelled"
            THEN [req EXCEPT ![r].pc = "hyb_add_messages",
                             ![r].stream = CloseStream(@),
                             ![r].trace = Append(@, "end")]
            ELSE [req EXCEPT ![r].pc = "done", ![r].stream = CloseStream(@),
                             ![r].trace = Append(@, "end")]
  /\ UNCHANGED <<trimCopies, sessions, log, faults>>
  /\ UNCHANGED procVars

\* The stream raises (lines 707-710): controller.error.
HybStreamError(r) ==
  /\ req[r].pc = "hyb_streaming"
  /\ faults < MaxFaults
  /\ faults' = faults + 1
  /\ req' = [req EXCEPT ![r].pc = "done", ![r].stream = ErrorStream(@),
                        ![r].failed = @ \cup {"stream"}]
  /\ UNCHANGED <<trimCopies, sessions, log>>
  /\ UNCHANGED procVars

\* Lines 692-695: messageHistory.addMessages([HumanMessage, AIMessage]).
\* The store inserts the messages one after the other; a failure leaves
\* those inserted before it (none, or the user message) and is caught at
\* line 704.
HybAddMessages(r) ==
  /\ req[r].pc = "hyb_add_messages"
  /\ \E ok \in Outcomes, n \in 0..2 :
       /\ ok <=> n = 2
       /\ Charge(ok)
       /\ log' = log \o SubSeq(
                    << [sid |-> req[r].currentSessionId, type |-> "human",
                        content |-> req[r].input],
                       [sid |-> req[r].currentSessionId, type |-> "ai",
                        content |-> req[r].assistantText] >>, 1, n)
       /\ req' = [req EXCEPT ![r].pc = IF ok THEN "hyb_merge" ELSE "done",
                             ![r].trace = Append(@, "add_messages"),
                             ![r].failed = IF ok THEN @ ELSE @ \cup {"add_messages"}]
  /\ UNCHANGED <<trimCopies, sessions>>
  /\ UNCHANGED procVars

\* allHistoryForSummary (lines 698-702): the stored history read at the
\* start of the turn, then the turn.
HybAllHistory(r) ==
  FormatForSummary(req[r].fullHistory)
    \o << [type |-> "human", content |-> req[r].input],
          [type |-> "ai", content |-> req[r].assistantText] >>

\* updateSessionSummary, lines 757-770: the summary is made from the whole
\* history; a failure is caught at 777.
HybMerge(r) ==
  /\ req[r].pc = "hyb_merge"
  /\ \E ok \in Outcomes :
       /\ Charge(ok)
       /\ req' = [req EXCEPT ![r].pc = IF ok THEN "hyb_update" ELSE "done",
                             ![r].trace = Append(@, "merge"),
                             ![r].failed = IF ok THEN @ ELSE @ \cup {"merge"}]
  /\ UNCHANGED <<trimCopies, sessions, log>>
  /\ UNCHANGED procVars

\* updateSessionSummary, lines 772-775: UPDATE chat_sessions SET summary.
HybUpdate(r) ==
  /\ req[r].pc = "hyb_update"
  /\ \E ok \in Outcomes :
       /\ Charge(ok)
       /\ sessions' =
            IF ok /\ req[r].currentSessionId \in 1..Len(sessions)
            THEN [sessions EXCEPT ![req[r].currentSessionId].summary = HybAllHistory(r)]
            ELSE sessions
       /\ req' = [req EXCEPT ![r].pc = "done",
                             ![r].trace = Append(@, "update_summary"),
                             ![r].failed = IF ok THEN @ ELSE @ \cup {"update_summary"}]
  /\ UNCHANGED <<trimCopies, log>>
  /\ UNCHANGED procVars

HybSteps(r) ==
  \/ HybCreateSession(r) \/ HybLoad(r) \/ HybTrim(r) \/ HybStream(r)
  \/ HybChunk(r) \/ HybStreamEnd(r) \/ HybStreamError(r)
  \/ HybAddMessages(r) \/ HybMerge(r) \/ HybUpdate(r)

\* Requests to the handler, one after the other.
StartHyb(r) ==
  /\ AllQuiet(r)
  /\ \E sid \in {0} \cup KnownIds, body \in Bodies :
       \E uid \in (IF sid = 0 THEN {0, 1} ELSE {1}) :
          Begin(r, "hybrid", sid, uid, body)

(* --------------------------- token encoder ---------------------------- *)
Settled == {"primary", "fallback", "rejected"}

\* strTokenCounter / tiktokenCounter up to the first await: getEncoder runs
\* synchronously, then the call waits for the promise.
StartCount(c) ==
  /\ calls[c].pc = "idle"
  /\ \E in \in CountInputs :
       LET fn == in[1]
           content == in[2]
       IN
       calls' = [calls EXCEPT ![c] =
                   [pc |-> "awaiting", fn |-> fn, kind |-> content.kind,
                    type |-> IF fn = "tiktokenCounter" THEN "human" ELSE "none",
                    text |-> content.text, parts |-> content.parts,
                    seen |-> IF encPromise \in Settled THEN "settled" ELSE encPromise,
                    enc |-> "none", result |-> 0]]
  /\ loads' = getEncoder(encPromise, loads)
  /\ encPromise' = IF encPromise = "unset" THEN "pending" ELSE encPromise
  /\ UNCHANGED <<trimCopies, sessions, log, req, faults, pools>>

\* encodingForModel("gpt-4o-mini") settles; on rejection the catch handler
\* of line 68 calls encodingForModel("gpt-4").
PrimarySettles ==
  /\ encPromise = "pending"
  /\ loads # <<>> /\ loads[Len(loads)] = [profile |-> "primary", state |-> "pending"]
  /\ \E ok \in BOOLEAN :
       /\ loads' = IF ok
                   THEN [loads EXCEPT ![Len(loads)].state = "loaded"]
                   ELSE Append([loads EXCEPT ![Len(loads)].state = "failed"],
                               [profile |-> "fallback", state |-> "pending"])
       /\ encPromise' = IF ok THEN "primary" ELSE "pending"
  /\ UNCHANGED <<trimCopies, sessions, log, req, faults, pools, calls>>

\* encodingForModel("gpt-4") settles; its rejection rejects encPromise,
\* which stays stored.
FallbackSettles ==
  /\ encPromise = "pending"
  /\ loads # <<>> /\ loads[Len(loads)] = [profile |-> "fallback", state |-> "pending"]
  /\ \E ok \in BOOLEAN :
       /\ loads' = [loads EXCEPT ![Len(loads)].state = IF ok THEN "loaded" ELSE "failed"]
       /\ encPromise' = IF ok THEN "fallback" ELSE "rejected"
  /\ UNCHANGED <<trimCopies, sessions, log, req, faults, pools, calls>>

\* The call resumes after `await getEncoder()`: a rejected promise throws
\* out of the counter, a fulfilled one yields enc.encode(text).length, for
\* tiktokenCounter the count of the role label plus that of the content.
ResumeCount(c) ==
  /\ calls[c].pc = "awaiting"
  /\ encPromise \in Settled
  /\ calls' = IF encPromise = "rejected"
              THEN [calls EXCEPT ![c].pc = "raised"]
              ELSE [calls EXCEPT
                      ![c].pc = "returned",
                      ![c].enc = encPromise,
                      ![c].result =
                        strTokenCounter(ContentText(calls[c]))
                          + IF calls[c].fn = "tiktokenCounter"
                            THEN strTokenCounter(RoleLabel(calls[c].type))
                            ELSE 0]
  /\ UNCHANGED <<trimCopies, sessions, log, req, faults, pools, encPromise, loads>>

\* Token-count calls racing on the first use of the encoder.
NextEnc == (\E c \in Callers : StartCount(c) \/ ResumeCount(c))
             \/ PrimarySettles \/ FallbackSettles

InitEnc ==
  /\ trimCopies = FALSE
  /\ sessions = <<SeedSession>>
  /\ log = <<>>
  /\ req = [r \in Reqs |-> Blank]
  /\ faults = 0
  /\ ProcInit

SpecEnc == InitEnc /\ [][NextEnc]_vars

NextHyb == \E r \in Reqs : StartHyb(r) \/ HybSteps(r)

SpecHyb == Init /\ [][NextHyb]_vars

NextGet == \E r \in Reqs : StartGet(r) \/ GetCheck(r) \/ GetQuery(r)

SpecGet == InitGet /\ [][NextGet]_vars

(* ------------------------------ claims -------------------------------- *)
Rows(msgs) == {m.row : m \in Range(msgs)}
Called(r) == req[r].called
Turn(r) == (req[r].log0 + 1)..Len(log)
StorageOps ==
  {"insert_session", "select_summary", "get_messages", "add_user", "add_ai",
   "update_summary", "relink"}
ModelOps == {"summarize", "model", "merge"}

\* C1 as stated: in the summary handler, on a turn of an existing session,
\* every message of the loaded history is in the window sent to the
\* completion service or its fact is in the merged summary of the turn.
C1_EveryMessageInWindowOrSummary ==
  \A r \in Reqs :
    (req[r].handler = "summary" /\ Called(r) /\ req[r].sessionId # 0) =>
      \A i \in 1..Len(req[r].fullHistory) :
        \/ i \in Rows(req[r].recentWindow)
        \/ Fact(req[r].fullHistory[i]) \in Range(req[r].summaryForThisTurn)

\* C1 amended: every message of the loaded history is in the window sent,
\* or is a user message equal to the current input (the filter removed it
\* and it is presented as the input), or is in the overflow handed to the
\* summarisation call, whose digest is in the merged summary of the turn
\* unless that call failed.
C1_WindowInputOrOverflow ==
  \A r \in Reqs :
    (req[r].handler = "summary" /\ Called(r) /\ req[r].sessionId # 0) =>
      \A i \in 1..Len(req[r].fullHistory) :
        \/ i \in Rows(req[r].recentWindow)
        \/ /\ req[r].fullHistory[i].type = "human"
           /\ req[r].fullHistory[i].content = req[r].input
        \/ /\ i \in Rows(req[r].overflow)
           /\ \/ "summarize" \in req[r].failed
              \/ Fact(req[r].fullHistory[i]) \in Range(req[r].summaryForThisTurn)

\* C1 witness: a turn whose overflow was digested and whose window lost a
\* message to the current-input filter.
C1_Witness ==
  \E r \in Reqs :
    /\ req[r].handler = "summary" /\ Called(r)
    /\ req[r].overflowSummary # <<>>
    /\ Len(req[r].recentWindow) < Len(req[r].trimmedWindow)

\* C2: the trimmed window, and the window sent to the completion call, cost
\* at most 1500 tokens; every window message is a whole history message; the
\* window is empty exactly when the newest message alone exceeds the budget.
C2_WindowWithinBudget ==
  \A r \in Reqs :
    req[r].trimmed =>
      LET h == req[r].fullHistory
          w == req[r].trimmedWindow
      IN /\ tiktokenCounter(w) <= maxTokens
         /\ tiktokenCounter(req[r].recentWindow) <= maxTokens
         /\ \A m \in Range(w) : m.row \in 1..Len(h) /\ Fact(m) = Fact(h[m.row])
         /\ (w = <<>>) <=> (tiktokenCounter(<<h[Len(h)]>>) > maxTokens)

\* C2 witness: a trim that kept some messages and excluded others.
C2_Witness ==
  \E r \in Reqs :
    /\ req[r].trimmed
    /\ req[r].trimmedWindow # <<>>
    /\ Len(req[r].trimmedWindow) < Len(req[r].fullHistory)

\* C3 as stated: the trimmed window and the overflow computed from it
\* partition the history: together they hold every message and no message
\* is in both.
C3_WindowOverflowPartition ==
  \A r \in Reqs :
    (req[r].handler = "summary" /\ req[r].trimmed) =>
      /\ Rows(req[r].trimmedWindow) \cup Rows(req[r].overflow)
           = 1..Len(req[r].fullHistory)
      /\ Rows(req[r].trimmedWindow) \cap Rows(req[r].overflow) = {}

\* C4 as stated: the window is the contiguous chronological suffix of the
\* history and the overflow is the complementary prefix.
C4_WindowSuffixOverflowPrefix ==
  \A r \in Reqs :
    (req[r].handler = "summary" /\ req[r].trimmed) =>
      LET h == req[r].fullHistory
          w == req[r].trimmedWindow
          o == req[r].overflow
          k == Len(h) - Len(w)
      IN /\ \A i \in 1..Len(w) : w[i].row = k + i /\ Fact(w[i]) = Fact(h[k + i])
         /\ Len(o) = k
         /\ \A i \in 1..Len(o) : o[i].row = i

\* C5 as stated: in every handler the prompt never holds the current input
\* twice, as a user message of the window and as the input.
C5_InputNotInWindow ==
  \A r \in Reqs :
    Called(r) =>
      \A m \in Range(req[r].recentWindow) :
        ~(m.type = "human" /\ m.content = req[r].input)

\* C6: when the completion stream of the summary handler raises, the chunks
\* already emitted stay delivered, the stream ends in error, no assistant
\* message is appended for the turn and the persisted summary is unchanged.
C6_StreamErrorPersistsNothing ==
  \A r \in Reqs :
    (req[r].handler = "summary" /\ req[r].pc = "done" /\ "stream" \in req[r].failed) =>
      /\ req[r].stream = "errored"
      /\ req[r].status = 200
      /\ req[r].chunks = Cardinality({i \in 1..Len(req[r].trace) : req[r].trace[i] = "chunk"})
      /\ \A i \in Turn(r) : log[i].type # "ai"
      /\ "add_ai" \notin Range(req[r].trace)
      /\ "update_summary" \notin Range(req[r].trace)
      /\ SummaryOf(req[r].currentSessionId) = req[r].persistedSummary

\* C6 witness: the stream raised after a chunk had been delivered.
C6_Witness ==
  \E r \in Reqs :
    /\ req[r].handler = "summary" /\ req[r].pc = "done"
    /\ "stream" \in req[r].failed
    /\ req[r].chunks > 0

\* C7 as stated: a failed append of the user or the assistant message in the
\* summary handler still ends in a 200 response whose stream closes normally
\* with every chunk.
C7_AppendFailureStillCompletes ==
  \A r \in Reqs :
    (req[r].handler = "summary" /\ req[r].pc = "done"
       /\ req[r].failed \cap {"add_user", "add_ai"} # {}) =>
      /\ req[r].status = 200
      /\ req[r].stream = "closed"

\* C8 as stated: a request without user text is answered 400 before any
\* storage call and before any model call.
C8_EmptyInputRejectedFirst ==
  \A r \in Reqs :
    (req[r].pc = "done" /\ req[r].text = <<>> /\ req[r].status = 400) =>
      Range(req[r].trace) \cap (StorageOps \cup ModelOps) = {}

\* C9 as stated: for a turn of the optimize handler without sessionId, the
\* id of the x-session-id header is the id of the session record created and
\* the id under which the messages of the turn are stored.
C9_HeaderIsStoredSessionId ==
  \A r \in Reqs :
    (req[r].handler = "optimize" /\ req[r].sessionId = 0 /\ req[r].pc = "done"
       /\ req[r].created # 0 /\ req[r].failed = {}) =>
      /\ req[r].header = req[r].created
      /\ \A i \in Turn(r) : log[i].sid = req[r].header
      /\ GetMessages(req[r].header) # <<>>

\* C10 as stated: a session created for a turn without sessionId is titled
\* with the first 50 characters of the user text, followed by an ellipsis
\* exactly when the text is longer.
C10_TitleTruncatedWithEllipsis ==
  \A r \in Reqs :
    (req[r].created # 0 /\ req[r].hasText) =>
      sessions[req[r].created].title =
        Concat(Slice(req[r].text, 50),
               IF StrLen(req[r].text) > 50 THEN Rep(".", 3) ELSE <<>>)

\* C11: in the summary handler, when the overflow summarization call raises
\* and nothing else fails, the failure writes nothing to storage, the
\* completion call is made with the persisted summary alone, the filtered
\* trimmed window and the current input, and the client gets a 200 response
\* whose stream closes normally.
C11_SummarizationFailureDegrades ==
  \A r \in Reqs :
    (req[r].handler = "summary" /\ req[r].failed = {"summarize"}) =>
      /\ req[r].overflowSummary = <<>>
      /\ req[r].pc = "sum_stream" =>
            /\ Len(log) = req[r].log0
            /\ SummaryOf(req[r].currentSessionId) = req[r].persistedSummary
      /\ req[r].pc # "sum_stream" =>
            /\ Called(r)
            /\ req[r].summaryForThisTurn = req[r].persistedSummary
            /\ req[r].recentWindow =
                 FilterCurrentInput(req[r].trimmedWindow, req[r].input)
            /\ req[r].input = req[r].text
            /\ req[r].status \in {0, 200}
      /\ req[r].pc = "done" => req[r].status = 200 /\ req[r].stream = "closed"

\* C11 witness: a turn answered after its overflow summarization failed,
\* on a session that had a persisted summary.
C11_Witness ==
  \E r \in Reqs :
    /\ req[r].handler = "summary" /\ req[r].failed = {"summarize"}
    /\ req[r].pc = "done" /\ req[r].status = 200
    /\ req[r].persistedSummary # <<>>
    /\ req[r].overflow # <<>>

\* C12 as stated: in the optimize handler, after a turn whose stream closed
\* with assistant text and whose persistence calls all succeeded, the
\* summary of the session was rewritten and holds the turn's user input and
\* assistant output, also on the first turn of a new session.
C12_SummaryUpdatedEveryTurn ==
  \A r \in Reqs :
    (req[r].handler = "optimize" /\ req[r].pc = "done" /\ req[r].failed = {}
       /\ req[r].stream = "closed" /\ req[r].assistantText # <<>>) =>
      LET sid == IF req[r].sessionId # 0 THEN req[r].sessionId ELSE req[r].created
      IN /\ "update_summary" \in Range(req[r].trace)
         /\ {[type |-> "human", content |-> req[r].input],
             [type |-> "ai", content |-> req[r].assistantText]}
              \subseteq Range(SummaryOf(sid))

\* C13 as stated: between turns that all completed without a failure, the
\* persisted summary of a session created by these turns stands for each
\* logged message outside the active window exactly once and for no message
\* of the active window: every fact occurs in it as often as it occurs
\* among the messages that the trim of the log leaves out.
C13_FoldedExactlyOnce ==
  (faults = 0 /\ \A r \in Reqs : req[r].pc \in {"idle", "done", "retired"}) =>
    \A sid \in (Len(<<SeedSession>>) + 1)..Len(sessions) :
      LET h == GetMessages(sid)
          w == trimMessages(h, maxTokens, FALSE)
          out == SelectSeq(h, LAMBDA m : m.row \notin Rows(w))
          sum == SummaryOf(sid)
          Times(f, facts) == Cardinality({i \in 1..Len(facts) : facts[i] = f})
      IN \A f \in Range(sum) \cup Range(FormatForSummary(h)) :
           Times(f, sum) = Times(f, FormatForSummary(out))

\* The rows the turns of a concurrent run must have left in the log.
WantedRows ==
  [r \in Reqs |->
     <<[sid |-> 1, type |-> "human", content |-> req[r].input]>>
       \o (IF req[r].assistantText # <<>>
           THEN <<[sid |-> 1, type |-> "ai", content |-> req[r].assistantText]>>
           ELSE <<>>)]

Written(r) == MergeSummary(req[r].persistedSummary, SumDelta(r))

\* C14: two concurrent turns of the summary handler on one session, under
\* every interleaving of their steps: a turn that ends, ends with a 200
\* response whose stream closed normally; afterwards the log is the earlier log
\* followed by both turns' user and assistant messages, each once; every
\* summary UPDATE replaces the persisted summary by the value of the turn
\* that executes it and nothing else changes it, so the final summary is
\* the value written by the last UPDATE.
C14_ConcurrentTurns ==
  /\ [](\A r \in Reqs : req[r].pc = "done" =>
            req[r].status = 200 /\ req[r].stream = "closed")
  /\ []((\A r \in Reqs : req[r].pc = "done") =>
          LET new == SubSeq(log, Len(ConcSeed) + 1, Len(log))
              Times(x, rows) == Cardinality({i \in 1..Len(rows) : rows[i] = x})
              all == {x \in Range(new) \cup UNION {Range(WantedRows[r]) : r \in Reqs} : TRUE}
          IN /\ SubSeq(log, 1, Len(ConcSeed)) = ConcSeed
             /\ \A x \in all :
                  Times(x, new)
                    = Cardinality({r \in Reqs : x \in Range(WantedRows[r])}))
  /\ [][ /\ \A r \in Reqs :
             (req[r].pc = "sum_update" /\ req'[r].pc = "done") =>
                SummaryOf(1)' = Written(r)
         /\ sessions' # sessions =>
             \E r \in Reqs : req[r].pc = "sum_update" /\ req'[r].pc = "done" ]_vars

\* C14 witness: both turns read the summary before either wrote it, both
\* finished, and the persisted summary is the one of the first request,
\* which differs from the one of the second.
C14_Witness ==
  /\ \A r \in Reqs : req[r].pc = "done" /\ "update_summary" \in Range(req[r].trace)
  /\ \A r \in Reqs : req[r].persistedSummary = <<>>
  /\ SummaryOf(1) = Written(1)
  /\ Written(1) # Written(2)

\* Positions of an operation in the sequence of calls a request has made.
At(r, op) == {i \in 1..Len(req[r].trace) : req[r].trace[i] = op}

\* C15 as stated: in the summary and the optimize handler every write of
\* the turn (user-message append, assistant-message append, summary update)
\* comes after the completion stream was seen exhausted, and the user
\* message is appended before the assistant message, which is appended
\* before the summary is written.
C15_PersistenceAfterStreamEnd ==
  \A r \in Reqs :
    req[r].handler \in {"summary", "optimize"} =>
      /\ \A i \in At(r, "add_user") \cup At(r, "add_ai") \cup At(r, "update_summary") :
           \E j \in At(r, "end") : j < i
      /\ \A i \in At(r, "add_user"), j \in At(r, "add_ai") : i < j
      /\ \A i \in At(r, "add_ai"), j \in At(r, "update_summary") : i < j

\* C16 as stated: when the client of the summary or the optimize handler
\* disconnects before the completion stream was exhausted, neither the
\* assistant message nor the summary update of the turn is written.
C16_DisconnectSkipsPersistence ==
  \A r \in Reqs :
    (req[r].handler \in {"summary", "optimize"}
       /\ \E i \in At(r, "disconnect") : \A j \in At(r, "end") : i < j) =>
      /\ At(r, "add_ai") = {}
      /\ At(r, "update_summary") = {}
      /\ \A i \in Turn(r) : log[i].type # "ai"
      /\ SummaryOf(req[r].currentSessionId) = req[r].persistedSummary

\* C17: in the summary and the optimize handler, when the summary merge
\* call or the summary UPDATE fails after the messages were appended, the
\* persisted summary keeps the value read at the start of the turn, the
\* user and the assistant message of the turn stay in the log as appended,
\* and the 200 response's stream closes normally.
C17_SummaryFailureKeepsLog ==
  \A r \in Reqs :
    (req[r].handler \in {"summary", "optimize"} /\ req[r].pc = "done"
       /\ req[r].failed \cap {"merge", "update_summary"} # {}) =>
      /\ SummaryOf(req[r].currentSessionId) = req[r].persistedSummary
      /\ SubSeq(log, req[r].log0 + 1, Len(log)) =
           << [sid |-> req[r].currentSessionId, type |-> "human",
               content |-> req[r].input],
              [sid |-> req[r].currentSessionId, type |-> "ai",
               content |-> req[r].assistantText] >>
      /\ req[r].status = 200
      /\ req[r].stream = "closed"

\* C17 witness: a turn of the summary handler whose merge call failed on a
\* session that already had messages.
C17_Witness ==
  \E r \in Reqs :
    /\ req[r].handler = "summary" /\ req[r].pc = "done"
    /\ "merge" \in req[r].failed
    /\ req[r].log0 > 0

\* C18 as stated: a session created by a turn without sessionId is in the
\* session listing of its user only once a message of that session has
\* been appended.
C18_ListedOnlyAfterAppend ==
  \A x \in Range(ListSessions(1)) :
    x.id > Len(<<SeedSession>>) => x.message_count > 0

\* C19: the history GET handler answers a request without sessionId with
\* status 400 and without a storage query; for a sessionId it returns
\* exactly the stored messages of that session, in ascending created_at
\* order, 'human' as role 'user' and 'ai' as role 'assistant', every role
\* being 'user' or 'assistant'.
C19_HistoryGet ==
  \A r \in Reqs :
    (req[r].handler = "get" /\ req[r].pc = "done") =>
      LET ms == req[r].messages
          mine == {i \in 1..Len(log) : log[i].sid = req[r].sessionId}
      IN /\ req[r].sessionId = 0 => req[r].status = 400 /\ req[r].trace = <<>>
         /\ req[r].sessionId # 0 => req[r].status \in {200, 500}
         /\ req[r].status = 200 =>
              /\ {ms[k].createdAt : k \in 1..Len(ms)} = mine
              /\ Len(ms) = Cardinality(mine)
              /\ \A k \in 1..(Len(ms) - 1) : ms[k].createdAt < ms[k + 1].createdAt
              /\ \A k \in 1..Len(ms) :
                   /\ ms[k].content = log[ms[k].createdAt].content
                   /\ log[ms[k].createdAt].type = "human" => ms[k].role = "user"
                   /\ log[ms[k].createdAt].type = "ai" => ms[k].role = "assistant"
                   /\ ms[k].role \in {"user", "assistant"}

\* C19 witness: a history of a user and an assistant message returned from
\* a table that also holds a message of another session.
C19_Witness ==
  \E r \in Reqs :
    /\ req[r].handler = "get" /\ req[r].pc = "done" /\ req[r].status = 200
    /\ {req[r].messages[k].role : k \in 1..Len(req[r].messages)} = {"user", "assistant"}
    /\ Len(req[r].messages) < Len(log)

\* C20 as stated: in the summary handler the overflow summarization call
\* is made exactly when some message of the history is outside the trimmed
\* window; for a new session, an empty history or a history that fits the
\* budget no summarization call precedes the completion call and the
\* summary of the prompt is the persisted one; for a new session or an
\* empty history the prompt holds no window message, only the preamble,
\* that summary and the current input.
C20_SummarizeOnlyOnOverflow ==
  \A r \in Reqs :
    (req[r].handler = "summary" /\ Called(r)) =>
      LET h == req[r].fullHistory
          outside == {i \in 1..Len(h) : i \notin Rows(req[r].trimmedWindow)}
          small == \/ req[r].sessionId = 0
                   \/ h = <<>>
                   \/ tiktokenCounter(h) <= maxTokens
      IN /\ (At(r, "summarize") # {}) <=> (req[r].sessionId # 0 /\ outside # {})
         /\ small =>
              /\ At(r, "summarize") = {}
              /\ req[r].summaryForThisTurn = req[r].persistedSummary
              /\ req[r].input = req[r].text
              /\ (req[r].sessionId = 0 \/ h = <<>>) => req[r].recentWindow = <<>>

\* C26 as stated: once a request of the optimize handler has terminated,
\* every message it appended is stored under the id of an existing session
\* record.
C26_NoMessageUnderTemporaryId ==
  \A r \in Reqs :
    (req[r].handler = "optimize" /\ req[r].pc = "done") =>
      \A i \in Turn(r) : log[i].sid \in 1..Len(sessions)

Appended(r) ==
  [i \in 1..(Len(log) - req[r].log0) |->
     [type |-> log[req[r].log0 + i].type, content |-> log[req[r].log0 + i].content]]

\* C25: in the summary, the optimize and the tool-calling handler (the RAG
\* handler has the same steps) the log never holds a turn's assistant
\* message without that turn's user message right before it: the rows of a
\* turn are none, the user message, or the user message followed by the
\* assistant message, and the assistant append is attempted only after a
\* successful user append.
C25_AssistantAfterUser ==
  \A r \in Reqs :
    req[r].handler \in {"summary", "optimize", "tool"} =>
      LET H == [type |-> "human", content |-> req[r].input]
          A == [type |-> "ai", content |-> req[r].assistantText]
      IN /\ Appended(r) \in {<<>>, <<H>>, <<H, A>>}
         /\ At(r, "add_ai") # {} =>
              /\ "add_user" \notin req[r].failed
              /\ \E i \in At(r, "add_user") : \A j \in At(r, "add_ai") : i < j

\* C25 witness: a turn of the tool-calling handler that left its user
\* message followed by its assistant message.
C25_Witness ==
  \E r \in Reqs :
    /\ req[r].handler = "tool" /\ req[r].pc = "done"
    /\ Len(Appended(r)) = 2
    /\ Appended(r)[2].type = "ai"

\* C30: in the tool-calling handler (and the RAG handler, which has the
\* same steps), when only the append of the user message fails the request
\* is answered 200, every chunk is streamed, the stream closes normally and
\* neither the assistant message nor the summary is written; when the
\* output held the marker of a database error, the assistant message and
\* the summary are not written either.
C30_SkippedPersistence ==
  \A r \in Reqs :
    (req[r].handler = "tool" /\ req[r].pc = "done") =>
      /\ req[r].failed = {"add_user"} =>
           /\ req[r].status = 200
           /\ req[r].stream = "closed"
           /\ req[r].chunks = Cardinality(At(r, "chunk"))
           /\ At(r, "end") # {}
           /\ Appended(r) = <<>>
      /\ ("add_user" \in req[r].failed \/ req[r].hasDatabaseError) =>
           /\ At(r, "add_ai") = {} /\ At(r, "merge") = {}
           /\ At(r, "update_summary") = {}
           /\ \A i \in 1..Len(Appended(r)) : Appended(r)[i].type # "ai"
           /\ SummaryOf(req[r].currentSessionId) = req[r].persistedSummary

\* C30 witness: the user append failed and the whole answer was streamed.
C30_Witness ==
  \E r \in Reqs :
    /\ req[r].handler = "tool" /\ req[r].pc = "done"
    /\ req[r].failed = {"add_user"}
    /\ req[r].chunks = MaxChunks /\ req[r].assistantText # <<>>
    /\ ~req[r].hasDatabaseError

\* C28: in the summary and the tool-calling handler (the RAG handler has the
\* same filter) the filtered window holds no user message whose content is
\* the current input, wherever it stood in the trimmed window, and it holds
\* every other message of the trimmed window, assistant and system messages
\* with that content included, in the original order.
C28_FilterRemovesEveryMatch ==
  \A r \in Reqs :
    (req[r].handler \in {"summary", "tool"} /\ req[r].trimmed) =>
      LET w == req[r].trimmedWindow
          rw == req[r].recentWindow
          K == {i \in 1..Len(w) :
                  ~(w[i].type = "human" /\ w[i].content = req[r].input)}
      IN /\ \A j \in 1..Len(rw) :
              ~(rw[j].type = "human" /\ rw[j].content = req[r].input)
         /\ Len(rw) = Cardinality(K)
         /\ \A i \in K : rw[Cardinality({k \in K : k < i}) + 1] = w[i]

\* C28 witness: a window with the input as a user message at its first and
\* at its last position and a non-user message of the same content between
\* them; only the latter is left.
C28_Witness ==
  \E r \in Reqs :
    /\ req[r].handler \in {"summary", "tool"} /\ req[r].trimmed
    /\ Len(req[r].trimmedWindow) = 3
    /\ \A i \in {1, 3} : /\ req[r].trimmedWindow[i].type = "human"
                          /\ req[r].trimmedWindow[i].content = req[r].input
    /\ req[r].trimmedWindow[2].type # "human"
    /\ req[r].trimmedWindow[2].content = req[r].input
    /\ Len(req[r].recentWindow) = 1

\* C21 as stated: a token count never raises and returns an integer >= 0,
\* whatever the content and whatever the state of the encoder cache.
C21_CounterNeverRaises ==
  \A c \in Callers :
    /\ calls[c].pc # "raised"
    /\ calls[c].pc = "returned" => calls[c].result \in Nat

\* C23 as stated: the pools in existence are those of the process; serving
\* POST requests constructs no further pool.
C23_OneProcessWidePool == pools = ModulePools

\* C24: the primary profile is loaded at most once and first, the fallback
\* at most once and only after the primary failed to load, and every call
\* that got an encoder, whether it raced on the first use or came later,
\* got the one the cache holds.
C24_EncoderInitialisedOnce ==
  /\ Cardinality({i \in 1..Len(loads) : loads[i].profile = "primary"}) <= 1
  /\ Cardinality({i \in 1..Len(loads) : loads[i].profile = "fallback"}) <= 1
  /\ loads # <<>> => loads[1].profile = "primary"
  /\ \A i \in 1..Len(loads) :
       loads[i].profile = "fallback" => loads[1].state = "failed"
  /\ \A c \in Callers :
       calls[c].pc = "returned" =>
         /\ calls[c].enc \in {"primary", "fallback"}
         /\ calls[c].enc = encPromise
         /\ calls[c].enc = "primary" =>
              loads = <<[profile |-> "primary", state |-> "loaded"]>>
         /\ calls[c].enc = "fallback" =>
              loads = <<[profile |-> "primary", state |-> "failed"],
                        [profile |-> "fallback", state |-> "loaded"]>>
  /\ \A c, d \in Callers :
       (calls[c].pc = "returned" /\ calls[d].pc = "returned") =>
         calls[c].enc = calls[d].enc

\* C24 witness: one call started the load, a second joined while it was
\* pending, a third came after it had settled, and all three got the
\* fallback encoder.
C24_Witness ==
  \E c, d, e \in Callers :
    /\ calls[c].seen = "unset" /\ calls[d].seen = "pending"
    /\ calls[e].seen = "settled"
    /\ \A x \in {c, d, e} : calls[x].pc = "returned" /\ calls[x].enc = "fallback"

C29_AppendedTogether ==
  \A r \in Reqs :
    req[r].handler = "hybrid" =>
      /\ At(r, "add_messages") # {} =>
           /\ req[r].assistantText # <<>>
           /\ "stream" \notin req[r].failed
           /\ Cardinality(At(r, "add_messages")) = 1
           /\ \E i \in At(r, "end") : \A j \in At(r, "add_messages") : i < j
      /\ (req[r].pc = "done" /\ Called(r)
            /\ ("stream" \in req[r].failed \/ req[r].assistantText = <<>>)) =>
           /\ Appended(r) = <<>>
           /\ SummaryOf(req[r].currentSessionId) = req[r].persistedSummary
      /\ req[r].pc = "done" =>
           Cardinality({i \in 1..Len(Appended(r)) : Appended(r)[i].type = "human"})
             = Cardinality({i \in 1..Len(Appended(r)) : Appended(r)[i].type = "ai"})

====
